---- MODULE Spec2Model ----
(***************************************************************************)
(* Model of PlaydatesApp/tools/app-icon/generate_app_icon.py: a script     *)
(* that ensures an output directory, draws one 1024x1024 RGBA canvas with  *)
(* a fixed sequence of Pillow drawing calls and saves the canvas and a     *)
(* LANCZOS-resized copy per entry of the size manifest.                    *)
(*                                                                         *)
(* The canvas is observed at a fixed set of probe pixels (Probes): one or  *)
(* more pixels inside every drawn shape, inside every overlap of shapes    *)
(* and inside the bounding boxes but outside the curved shapes.  Every     *)
(* probe lies at least two pixels from every shape boundary, so the        *)
(* rasteriser's treatment of fractional coordinates does not decide its    *)
(* colour.  Coordinates are kept exactly, in thousandths of a pixel        *)
(* (Scale), and truncated to whole pixels where Pillow's primitives take   *)
(* them.                                                                   *)
(***************************************************************************)
EXTENDS Integers, Sequences, FiniteSets, TLC

VARIABLES manifest, dirExists, fs, icon, resized_icon, pc, k, idx, trace, run

vars == <<manifest, dirExists, fs, icon, resized_icon, pc, k, idx, trace, run>>

(* ------------------------------ bounds -------------------------------- *)

\* number of invocations of the script on the same output directory
MaxRuns == 2

(* ----------------------------- constants ------------------------------ *)

output_dir == "PlaydatesApp/Assets.xcassets/AppIcon.appiconset"

\* the manifest with one file name repeated
icon_sizes_dup ==
    << <<1024, "playdates-icon-1024.png">>,
       <<180, "playdates-icon-180.png">>,
       <<120, "playdates-icon-120.png">>,
       <<167, "playdates-icon-167.png">>,
       <<152, "playdates-icon-152.png">>,
       <<87, "playdates-icon-87.png">>,
       <<80, "playdates-icon-80.png">>,
       <<76, "playdates-icon-76.png">>,
       <<60, "playdates-icon-60.png">>,
       <<58, "playdates-icon-60.png">>,
       <<40, "playdates-icon-40.png">>,
       <<29, "playdates-icon-29.png">>,
       <<20, "playdates-icon-20.png">> >>

icon_sizes ==
    << <<1024, "playdates-icon-1024.png">>,
       <<180, "playdates-icon-180.png">>,
       <<120, "playdates-icon-120.png">>,
       <<167, "playdates-icon-167.png">>,
       <<152, "playdates-icon-152.png">>,
       <<87, "playdates-icon-87.png">>,
       <<80, "playdates-icon-80.png">>,
       <<76, "playdates-icon-76.png">>,
       <<60, "playdates-icon-60.png">>,
       <<58, "playdates-icon-58.png">>,
       <<40, "playdates-icon-40.png">>,
       <<29, "playdates-icon-29.png">>,
       <<20, "playdates-icon-20.png">> >>

primary_color == <<145, 221, 207>>
secondary_color == <<247, 249, 242>>
accent_color == <<232, 197, 229>>
highlight_color == <<241, 158, 210>>
text_color == <<93, 78, 109>>
info_blue_color == <<33, 150, 243>>

base_size == 1024

\* os.path.join(output_dir, filename)
PathJoin(dir, filename) == dir \o "/" \o filename

base_icon_path == PathJoin(output_dir, "playdates-icon-1024.png")

(* ----------------------------- geometry ------------------------------- *)

\* thousandths of a pixel: every product below is exact in this unit
Scale == 1000

calendar_size == (base_size * Scale * 65) \div 100
icon_size_small == (base_size * Scale * 12) \div 100
offset_factor == (calendar_size * 4) \div 10
center_x == (base_size * Scale) \div 2
center_y == (base_size * Scale) \div 2

calendar_x1 == center_x - calendar_size \div 2
calendar_y1 == center_y - calendar_size \div 2
calendar_x2 == center_x + calendar_size \div 2
calendar_y2 == center_y + calendar_size \div 2
calendar_corner_radius == calendar_size \div 10

top_bar_height == (calendar_size * 15) \div 100

ring_radius == (top_bar_height * 2) \div 10
ring_y == calendar_y1 + top_bar_height \div 2
ring_spacing == (calendar_size * 2) \div 10

icon_center_y == center_y + top_bar_height \div 2

\* int(v) on a non-negative coordinate: whole pixels
Px(v) == v \div Scale

\* max(1, int(size*0.1))
LineWidth(size) == IF Px(size \div 10) > 1 THEN Px(size \div 10) ELSE 1

(* ------------------------ drawing primitives -------------------------- *)

InBox(p, x0, y0, x1, y1) ==
    /\ x0 <= p[1] /\ p[1] <= x1
    /\ y0 <= p[2] /\ p[2] <= y1

\* ImageDraw.rectangle([x0, y0, x1, y1], fill): the box, both ends included
InRectangle(p, x0, y0, x1, y1) ==
    InBox(p, Px(x0), Px(y0), Px(x1), Px(y1))

\* the ellipse inscribed in the whole-pixel box bx0..bx1 x by0..by1
InEllipseBox(p, bx0, by0, bx1, by1) ==
    /\ InBox(p, bx0, by0, bx1, by1)
    /\ LET w == bx1 - bx0
           h == by1 - by0
           dx == 2 * p[1] - bx0 - bx1
           dy == 2 * p[2] - by0 - by1
       IN  (dx * dx) * (h * h) + (dy * dy) * (w * w) <= (w * w) * (h * h)

\* ImageDraw.ellipse([x0, y0, x1, y1], fill)
InEllipse(p, x0, y0, x1, y1) ==
    InEllipseBox(p, Px(x0), Px(y0), Px(x1), Px(y1))

Min(a, b) == IF a <= b THEN a ELSE b

\* ImageDraw.rounded_rectangle([x0, y0, x1, y1], radius, fill): the box
\* without what lies outside the four corner arcs; the corner diameter is
\* cut down to the box's width and height (joined corners).
InRoundedRectangle(p, x0, y0, x1, y1, radius) ==
    LET bx0 == Px(x0)
        by0 == Px(y0)
        bx1 == Px(x1)
        by1 == Px(y1)
        d == Min(2 * radius, Min(x1 - x0, y1 - y0))
        r == Px(d \div 2)
        cx == IF p[1] < bx0 + r THEN bx0 + r
              ELSE IF p[1] > bx1 - r THEN bx1 - r ELSE p[1]
        cy == IF p[2] < by0 + r THEN by0 + r
              ELSE IF p[2] > by1 - r THEN by1 - r ELSE p[2]
    IN  /\ InBox(p, bx0, by0, bx1, by1)
        /\ (p[1] - cx) * (p[1] - cx) + (p[2] - cy) * (p[2] - cy) <= r * r

\* ImageDraw.line([(ax, ay), (bx, by)], fill, width): the pixels within
\* width/2 of the segment, between its two ends
InLine(p, ax, ay, bx, by, width) ==
    LET a1 == Px(ax)
        a2 == Px(ay)
        b1 == Px(bx)
        b2 == Px(by)
        ux == b1 - a1
        uy == b2 - a2
        vx == p[1] - a1
        vy == p[2] - a2
        len2 == ux * ux + uy * uy
        dot == vx * ux + vy * uy
        cross == vx * uy - vy * ux
    IN  /\ InBox(p, Min(a1, b1) - width, Min(a2, b2) - width,
                    (a1 + b1) - Min(a1, b1) + width, (a2 + b2) - Min(a2, b2) + width)
        /\ 0 <= dot /\ dot <= len2
        /\ 4 * cross * cross <= width * width * len2

(* --------------------------- drawing calls ---------------------------- *)

\* One primitive call on `draw`: its kind, its coordinates, the fill it is
\* given, and `color`, the colour argument of the statement that issued it
\* (for a call made by draw_placeholder_icon, the function's color argument).
Call(kind, xy, width, fill, color) ==
    [kind |-> kind, xy |-> xy, width |-> width, fill |-> fill, color |-> color]

draw_placeholder_icon(symbol_name, x, y, size, color) ==
    LET half_size == size \div 2
        head_radius == (size * 2) \div 10
        body_height == (size * 4) \div 10
        arm_width == (size * 4) \div 10
        leg_sep == (size * 2) \div 10
    IN  IF symbol_name = "leaf.fill"
        THEN << Call("ellipse",
                     <<x - half_size, y - half_size, x + half_size, y + half_size>>,
                     0, primary_color, color) >>
        ELSE IF symbol_name = "building.columns.fill"
        THEN << Call("rectangle",
                     <<x - half_size, y - half_size, x + half_size, y + half_size>>,
                     0, text_color, color) >>
        ELSE IF symbol_name = "figure.play"
        THEN << Call("ellipse",
                     <<x - head_radius, y - half_size,
                       x + head_radius, y - half_size + 2 * head_radius>>,
                     0, color, color),
                Call("line",
                     <<x, y - half_size + 2 * head_radius, x, y + head_radius>>,
                     LineWidth(size), color, color),
                Call("line",
                     <<x - arm_width \div 2, y, x + arm_width \div 2, y>>,
                     LineWidth(size), color, color),
                Call("line",
                     <<x, y + head_radius, x - leg_sep, y + half_size>>,
                     LineWidth(size), color, color),
                Call("line",
                     <<x, y + head_radius, x + leg_sep, y + half_size>>,
                     LineWidth(size), color, color) >>
        ELSE << >>

\* the drawing statements of the module body, in program order
DrawCalls ==
    << Call("rounded_rectangle",
            <<calendar_x1, calendar_y1, calendar_x2, calendar_y2, calendar_corner_radius>>,
            0, accent_color, accent_color),
       Call("rounded_rectangle",
            <<calendar_x1, calendar_y1, calendar_x2, calendar_y1 + top_bar_height,
              calendar_corner_radius>>,
            0, text_color, text_color),
       Call("ellipse",
            <<center_x - ring_spacing - ring_radius, ring_y - ring_radius,
              center_x - ring_spacing + ring_radius, ring_y + ring_radius>>,
            0, info_blue_color, info_blue_color),
       Call("ellipse",
            <<center_x + ring_spacing - ring_radius, ring_y - ring_radius,
              center_x + ring_spacing + ring_radius, ring_y + ring_radius>>,
            0, info_blue_color, info_blue_color) >>
    \o draw_placeholder_icon("leaf.fill",
                             center_x - offset_factor,
                             icon_center_y - (offset_factor * 8) \div 10,
                             icon_size_small, highlight_color)
    \o draw_placeholder_icon("building.columns.fill",
                             center_x + offset_factor,
                             icon_center_y - (offset_factor * 8) \div 10,
                             icon_size_small, text_color)
    \o draw_placeholder_icon("figure.play",
                             center_x,
                             icon_center_y + (offset_factor * 8) \div 10,
                             icon_size_small, highlight_color)

\* the pixels a primitive call paints
Covers(c, p) ==
    IF c.kind = "rectangle"
    THEN InRectangle(p, c.xy[1], c.xy[2], c.xy[3], c.xy[4])
    ELSE IF c.kind = "ellipse"
    THEN InEllipse(p, c.xy[1], c.xy[2], c.xy[3], c.xy[4])
    ELSE IF c.kind = "rounded_rectangle"
    THEN InRoundedRectangle(p, c.xy[1], c.xy[2], c.xy[3], c.xy[4], c.xy[5])
    ELSE InLine(p, c.xy[1], c.xy[2], c.xy[3], c.xy[4], c.width)

(* ------------------------------ images -------------------------------- *)

\* the pixels of the canvas that the model observes
Probes ==
    { <<8, 8>>, <<900, 512>>,              \* outside the calendar
      <<182, 182>>,                        \* calendar box, outside its corner arc
      <<512, 512>>, <<512, 650>>,          \* calendar body
      <<512, 200>>,                        \* top bar
      <<182, 276>>,                        \* top bar box, outside its corner arc
      <<378, 229>>, <<645, 229>>,          \* ring centres
      <<360, 211>>,                        \* ring box, outside the ring
      <<245, 348>>, <<190, 293>>,          \* tree: centre, box corner
      <<778, 348>>, <<720, 290>>,          \* museum: centre, box corner
      <<512, 738>>,                        \* figure: head
      <<512, 790>>, <<512, 775>>,          \* figure: body, body and arms
      <<495, 775>>,                        \* figure: arm
      <<500, 818>>, <<524, 818>>,          \* figure: legs
      <<512, 825>> }                       \* between the legs

\* a fill given as an RGB triple on an RGBA image: opaque
RGBA(c) == c \o <<255>>

NoImage == [width |-> 0, height |-> 0, filter |-> "none", px |-> << >>]

\* Image.new('RGBA', (size, size), color)
NewImage(size, color) ==
    [width |-> size, height |-> size, filter |-> "none",
     px |-> [p \in Probes |-> RGBA(color)]]

\* one primitive call applied to the canvas in place
Paint(img, c) ==
    [img EXCEPT !.px = [p \in Probes |-> IF Covers(c, p) THEN RGBA(c.fill) ELSE img.px[p]]]

\* a resize that keeps the source height
Resize_tall(img, w, h) ==
    [width |-> w, height |-> img.height, filter |-> "LANCZOS", px |-> img.px]

\* icon.resize((size, size), Image.Resampling.LANCZOS): a new image of the
\* target size; px holds the source raster the filter was applied to
Resize(img, w, h) ==
    [width |-> w, height |-> h, filter |-> "LANCZOS", px |-> img.px]

(* --------------------------- file system ------------------------------ *)

\* manifests the constants surface may hold: the script's own, and the
\* example manifest of the specification's test scenario
Manifests ==
    { icon_sizes,
      << <<1024, "base.png">>, <<180, "a.png">>, <<20, "b.png">> >> }

Range(s) == { s[i] : i \in DOMAIN s }

AllPaths ==
    { base_icon_path }
    \cup UNION { { PathJoin(output_dir, e[2]) : e \in Range(m) } : m \in Manifests }

NoFile == [width |-> 0, height |-> 0, filter |-> "absent", px |-> << >>]

\* what an interrupted write leaves behind: not a decodable image
PartialFile == [width |-> 0, height |-> 0, filter |-> "partial", px |-> << >>]

\* a file left by an earlier version of the script: right size, other pixels
StaleFile(size) ==
    [width |-> size, height |-> size, filter |-> "stale", px |-> << >>]

\* the directory holding stale files for the first j entries of manifest m
StaleDir(m, j) ==
    [p \in AllPaths |->
        IF \E i \in 1..j : p = PathJoin(output_dir, m[i][2])
        THEN StaleFile((CHOOSE i \in 1..j : p = PathJoin(output_dir, m[i][2])))
        ELSE NoFile]

Log(op, arg) == [op |-> op, arg |-> arg]

(* ------------------------------ actions ------------------------------- *)

\* process state at the start of an invocation
Start ==
    /\ pc = "makedirs"
    /\ icon = NoImage
    /\ resized_icon = NoImage
    /\ k = 1
    /\ idx = 1
    /\ trace = << >>

InitFor(ms) ==
    /\ manifest \in ms
    /\ run = 1
    /\ Start
    /\ \/ /\ dirExists = FALSE
          /\ fs = [p \in AllPaths |-> NoFile]
       \/ /\ dirExists = TRUE
          /\ \E j \in 0..Len(manifest) : fs = StaleDir(manifest, j)

Init == InitFor({icon_sizes})

InitM == InitFor(Manifests)

\* os.makedirs(output_dir, exist_ok=True)
Makedirs ==
    /\ pc = "makedirs"
    /\ dirExists' = TRUE
    /\ pc' = "new"
    /\ trace' = Append(trace, Log("makedirs", output_dir))
    /\ UNCHANGED <<manifest, fs, icon, resized_icon, k, idx, run>>

\* os.makedirs raises: the directory is absent and cannot be created
MakedirsFail ==
    /\ pc = "makedirs"
    /\ ~dirExists
    /\ pc' = "aborted"
    /\ UNCHANGED <<manifest, dirExists, fs, icon, resized_icon, k, idx, trace, run>>

\* icon = Image.new('RGBA', (base_size, base_size), info_blue_color)
New ==
    /\ pc = "new"
    /\ icon' = NewImage(base_size, info_blue_color)
    /\ pc' = "draw"
    /\ k' = 1
    /\ trace' = Append(trace, Log("new", base_size))
    /\ UNCHANGED <<manifest, dirExists, fs, resized_icon, idx, run>>

\* the k-th drawing call of the module body
Draw ==
    /\ pc = "draw"
    /\ k <= Len(DrawCalls)
    /\ icon' = Paint(icon, DrawCalls[k])
    /\ k' = k + 1
    /\ pc' = IF k = Len(DrawCalls) THEN "save_base" ELSE "draw"
    /\ trace' = Append(trace, Log("draw", k))
    /\ UNCHANGED <<manifest, dirExists, fs, resized_icon, idx, run>>

\* a statement that touches no file raises: the run ends with a traceback
Raise ==
    /\ pc \in {"new", "draw", "resize"}
    /\ pc' = "aborted"
    /\ UNCHANGED <<manifest, dirExists, fs, icon, resized_icon, k, idx, trace, run>>

\* a save that does not replace a file that is already there
Save_keep(image, path, line) ==
    /\ dirExists
    /\ fs' = [fs EXCEPT ![path] = IF fs[path] = NoFile THEN image ELSE fs[path]]
    /\ trace' = trace \o << Log("save", path), Log("print", line \o path) >>

\* image.save(path) and the print that follows it
Save(image, path, line) ==
    /\ dirExists
    /\ fs' = [fs EXCEPT ![path] = image]
    /\ trace' = trace \o << Log("save", path), Log("print", line \o path) >>

\* the base file written from a 1:1 resampled copy
SaveBase_resampled ==
    /\ pc = "save_base"
    /\ dirExists
    /\ fs' = [fs EXCEPT ![base_icon_path] =
                 [width |-> base_size, height |-> base_size,
                  filter |-> "LANCZOS", px |-> icon.px]]
    /\ trace' = trace \o << Log("resize", base_size), Log("save", base_icon_path),
                            Log("print", "Created base icon: " \o base_icon_path) >>
    /\ pc' = "loop"
    /\ idx' = 1
    /\ UNCHANGED <<manifest, dirExists, icon, resized_icon, k, run>>

\* icon.save(base_icon_path); print(...)
SaveBase ==
    /\ pc = "save_base"
    /\ Save(icon, base_icon_path, "Created base icon: ")
    /\ pc' = "loop"
    /\ idx' = 1
    /\ UNCHANGED <<manifest, dirExists, icon, resized_icon, k, run>>

\* the test of the loop body: size == base_size
IsBase_never(size) == FALSE

IsBase(size) == size = base_size

\* the loop left one entry early
LoopExit_early ==
    /\ pc = "loop"
    /\ idx >= Len(manifest)
    /\ pc' = "banner"
    /\ UNCHANGED <<manifest, dirExists, fs, icon, resized_icon, k, idx, trace, run>>

\* for size, filename in icon_sizes: the list is exhausted
LoopExit ==
    /\ pc = "loop"
    /\ idx > Len(manifest)
    /\ pc' = "banner"
    /\ UNCHANGED <<manifest, dirExists, fs, icon, resized_icon, k, idx, trace, run>>

\* if size == base_size: continue
LoopSkip ==
    /\ pc = "loop"
    /\ idx <= Len(manifest)
    /\ IsBase(manifest[idx][1])
    /\ idx' = idx + 1
    /\ UNCHANGED <<manifest, dirExists, fs, icon, resized_icon, pc, k, trace, run>>

LoopEnter ==
    /\ pc = "loop"
    /\ idx <= Len(manifest)
    /\ ~IsBase(manifest[idx][1])
    /\ pc' = "resize"
    /\ UNCHANGED <<manifest, dirExists, fs, icon, resized_icon, k, idx, trace, run>>

\* the canvas shrunk in place (Image.thumbnail) instead of copied
DoResize_thumbnail ==
    /\ pc = "resize"
    /\ icon' = [icon EXCEPT !.width = manifest[idx][1], !.height = manifest[idx][1],
                            !.filter = "LANCZOS"]
    /\ resized_icon' = icon'
    /\ pc' = "save"
    /\ trace' = Append(trace, Log("resize", manifest[idx][1]))
    /\ UNCHANGED <<manifest, dirExists, fs, k, idx, run>>

\* resized_icon = icon.resize((size, size), Image.Resampling.LANCZOS)
DoResize ==
    /\ pc = "resize"
    /\ resized_icon' = Resize(icon, manifest[idx][1], manifest[idx][1])
    /\ pc' = "save"
    /\ trace' = Append(trace, Log("resize", manifest[idx][1]))
    /\ UNCHANGED <<manifest, dirExists, fs, icon, k, idx, run>>

\* output_path = os.path.join(output_dir, filename); resized_icon.save(output_path); print(...)
SaveResized ==
    /\ pc = "save"
    /\ Save(resized_icon, PathJoin(output_dir, manifest[idx][2]), "Created icon: ")
    /\ pc' = "loop"
    /\ idx' = idx + 1
    /\ UNCHANGED <<manifest, dirExists, icon, resized_icon, k, run>>

\* a failed save that removes what the run has written so far
SaveFail_cleanup ==
    /\ pc \in {"save_base", "save"}
    /\ fs' = [p \in AllPaths |->
                 IF \E i \in DOMAIN trace : trace[i].op = "save" /\ trace[i].arg = p
                 THEN NoFile ELSE fs[p]]
    /\ pc' = "aborted"
    /\ UNCHANGED <<manifest, dirExists, icon, resized_icon, k, idx, trace, run>>

\* a save raises (disk full, permission denied): the target is left as it
\* was or holds a partial write; nothing is cleaned up
SaveFail ==
    /\ pc \in {"save_base", "save"}
    /\ LET path == IF pc = "save_base" THEN base_icon_path
                   ELSE PathJoin(output_dir, manifest[idx][2])
       IN  \E left \in {fs[path], PartialFile} :
               fs' = [fs EXCEPT ![path] = left]
    /\ pc' = "aborted"
    /\ UNCHANGED <<manifest, dirExists, icon, resized_icon, k, idx, trace, run>>

\* the three closing print statements
Banner ==
    /\ pc = "banner"
    /\ trace' = trace \o << Log("print", "\nApp icons generated successfully!"),
                            Log("print", "Ensure the Contents.json in '" \o output_dir
                                         \o "' is updated if needed."),
                            Log("print", "Remember to clean the build folder in Xcode and rebuild the app.") >>
    /\ pc' = "done"
    /\ UNCHANGED <<manifest, dirExists, fs, icon, resized_icon, k, idx, run>>

\* the script is invoked again on the same directory
Rerun ==
    /\ pc \in {"done", "aborted"}
    /\ run < MaxRuns
    /\ run' = run + 1
    /\ pc' = "makedirs"
    /\ icon' = NoImage
    /\ resized_icon' = NoImage
    /\ k' = 1
    /\ idx' = 1
    /\ trace' = << >>
    /\ UNCHANGED <<manifest, dirExists, fs>>

Next ==
    \/ Makedirs
    \/ MakedirsFail
    \/ New
    \/ Draw
    \/ Raise
    \/ SaveBase
    \/ LoopExit
    \/ LoopSkip
    \/ LoopEnter
    \/ DoResize
    \/ SaveResized
    \/ SaveFail
    \/ Banner
    \/ Rerun

Spec == Init /\ [][Next]_vars

SpecM == InitM /\ [][Next]_vars

(* ------------------------- derived observations ----------------------- *)

EntryPath(i) == PathJoin(output_dir, manifest[i][2])

IsExport(e) == e.op \in {"save", "resize"}

\* the save calls completed in this invocation, in order
Saves == SelectSeq(trace, LAMBDA e : e.op = "save")

Resizes == SelectSeq(trace, LAMBDA e : e.op = "resize")

Draws == SelectSeq(trace, LAMBDA e : e.op = "draw")

SavesTo(path) == { i \in DOMAIN Saves : Saves[i].arg = path }

IsBanner(e) == e.op = "print" /\ e.arg = "\nApp icons generated successfully!"

BannerPrinted == \E i \in DOMAIN trace : IsBanner(trace[i])

\* a file that decodes as an image written by the script
IsImage(f) == f.filter \in {"none", "LANCZOS"}

\* the calls that paint pixel p, by their position in program order
Covering(p) == { i \in DOMAIN DrawCalls : Covers(DrawCalls[i], p) }

Last(S) == CHOOSE i \in S : \A j \in S : j <= i

\* the colour of pixel p given by the last call that paints it, or the
\* background: by the fill the call hands to Pillow ...
TopFill(p) ==
    IF Covering(p) = {} THEN RGBA(info_blue_color)
    ELSE RGBA(DrawCalls[Last(Covering(p))].fill)

\* ... and by the colour argument of the statement that issued the call
TopColor(p) ==
    IF Covering(p) = {} THEN RGBA(info_blue_color)
    ELSE RGBA(DrawCalls[Last(Covering(p))].color)

(* ------------------------------- claims ------------------------------- *)

\* C1: after a run that completes without error, every (dimension, filename)
\* entry of icon_sizes has a file at output_dir/filename holding a square
\* image whose width and height are the entry's dimension.
C1_EveryEntryHasItsFile ==
    pc = "done" =>
        \A i \in DOMAIN icon_sizes :
            LET f == fs[PathJoin(output_dir, icon_sizes[i][2])]
            IN  /\ IsImage(f)
                /\ f.width = icon_sizes[i][1]
                /\ f.height = icon_sizes[i][1]

\* a first run has completed and its smallest and largest files are on disk
C1_Witness ==
    /\ pc = "done"
    /\ run = 1
    /\ fs[PathJoin(output_dir, "playdates-icon-20.png")].width = 20
    /\ fs[PathJoin(output_dir, "playdates-icon-1024.png")].height = 1024

\* C2: in a successful run over a manifest with the base dimension and
\* smaller ones, exactly one save happens per manifest entry: every entry's
\* path is saved once, no path is saved twice, and the number of saves is
\* the number of entries.
C2_OneWritePerEntry ==
    pc = "done" =>
        /\ Len(Saves) = Len(manifest)
        /\ \A i \in DOMAIN manifest : Cardinality(SavesTo(EntryPath(i))) = 1
        /\ \A a, b \in DOMAIN Saves : Saves[a].arg = Saves[b].arg => a = b

\* a completed run whose manifest holds 1024 and smaller dimensions
C2_Witness ==
    /\ pc = "done"
    /\ \E i \in DOMAIN manifest : manifest[i][1] = base_size
    /\ \E i \in DOMAIN manifest : manifest[i][1] < base_size
    /\ Len(Saves) = 13

\* C3: the base file holds exactly the canvas as drawn, unresized: no
\* resize is ever called with the base size, and every other saved entry
\* holds a resized copy of the canvas with target (size, size).
C3_BaseUnresized ==
    /\ \A j \in DOMAIN Resizes : Resizes[j].arg # base_size
    /\ (pc \in {"loop", "resize", "save", "banner", "done"}) =>
           /\ fs[base_icon_path] = icon
           /\ icon.filter = "none"
           /\ \A p \in Probes : fs[base_icon_path].px[p] = TopFill(p)
    /\ (pc \in {"loop", "resize", "save", "banner", "done"}) =>
           \A i \in DOMAIN manifest :
               (manifest[i][1] # base_size /\ i < idx) =>
                   LET f == fs[EntryPath(i)]
                   IN  /\ f.filter = "LANCZOS"
                       /\ f.width = manifest[i][1]
                       /\ f.height = manifest[i][1]
                       /\ f.px = icon.px

\* the base file and a resized file are both on disk, written by this run
C3_Witness ==
    /\ pc = "loop"
    /\ idx = 3
    /\ SavesTo(base_icon_path) # {}
    /\ fs[base_icon_path].filter = "none"
    /\ fs[EntryPath(2)].filter = "LANCZOS"

\* the kinds of the eleven drawing calls: calendar body, top bar, two
\* rings, tree, museum, and the five parts of the playground figure
ExpectedKinds ==
    << "rounded_rectangle", "rounded_rectangle", "ellipse", "ellipse",
       "ellipse", "rectangle", "ellipse", "line", "line", "line", "line" >>

FirstExport == CHOOSE i \in DOMAIN trace :
                   IsExport(trace[i]) /\ \A j \in 1..(i - 1) : ~IsExport(trace[j])

ExportStarted == \E i \in DOMAIN trace : IsExport(trace[i])

\* C4: the canvas is drawn exactly once and completely before any save or
\* resize (every drawing call, in order, precedes the first export), from
\* the first save or resize on the canvas is not mutated again in that run,
\* and every file saved holds pixels of that same final canvas.
C4_DrawnOnceBeforeExport ==
    /\ [](ExportStarted =>
            /\ Len(Draws) = Len(ExpectedKinds)
            /\ \A i \in DOMAIN Draws :
                   Draws[i].arg = i /\ DrawCalls[i].kind = ExpectedKinds[i]
            /\ \A i \in DOMAIN trace : trace[i].op = "draw" => i < FirstExport
            /\ \A i \in DOMAIN Saves : fs[Saves[i].arg].px = icon.px)
    /\ [][(ExportStarted /\ run' = run) => icon' = icon]_vars

\* two resized files are on disk after the canvas was drawn in full
C4_Witness ==
    /\ Len(Draws) = 11
    /\ Len(Resizes) = 2
    /\ Len(Saves) = 3
    /\ fs[EntryPath(3)].px = icon.px

\* the directory every completed run leaves, written from the constants alone
GoldenDir ==
    [p \in AllPaths |->
        IF \E i \in DOMAIN icon_sizes : p = PathJoin(output_dir, icon_sizes[i][2])
        THEN LET i == CHOOSE i \in DOMAIN icon_sizes :
                          p = PathJoin(output_dir, icon_sizes[i][2])
                 d == icon_sizes[i][1]
             IN  [width |-> d, height |-> d,
                  filter |-> IF d = base_size THEN "none" ELSE "LANCZOS",
                  px |-> [q \in Probes |-> TopFill(q)]]
        ELSE NoFile]

\* C5: determinism and idempotent re-run: whatever the output directory
\* held at the start (nothing, stale files, the files of an earlier
\* complete or failed run), a completed run leaves the same files with the
\* same contents, so a second run leaves the directory as the first did.
C5_SameDirectoryAfterEveryRun ==
    pc = "done" => fs = GoldenDir

\* a second invocation on the same directory has completed
C5_Witness ==
    /\ pc = "done"
    /\ run = 2
    /\ fs[base_icon_path].filter = "none"

\* C6: a failure at any step aborts the run there with no retry and no
\* cleanup: the files saved before it stay as written, no file of a later
\* manifest entry is written, the banner is never printed in a failed run,
\* and nothing further happens in that invocation.
C6_AbortKeepsEarlierFiles ==
    /\ [](pc = "aborted" =>
            /\ ~BannerPrinted
            /\ \A i \in DOMAIN Saves :
                   IsImage(fs[Saves[i].arg]) /\ fs[Saves[i].arg].px = icon.px
            /\ \A i \in DOMAIN manifest :
                   SavesTo(EntryPath(i)) # {} => (manifest[i][1] = base_size \/ i < idx))
    /\ [][(pc # "aborted" /\ pc' = "aborted") =>
            /\ trace' = trace
            /\ \A i \in DOMAIN Saves : fs'[Saves[i].arg] = fs[Saves[i].arg]
            /\ \A i \in DOMAIN manifest :
                   (i > idx /\ manifest[i][1] # base_size) => fs'[EntryPath(i)] = fs[EntryPath(i)]]_vars
    /\ [][pc = "aborted" => (run' = run + 1 /\ fs' = fs /\ trace' = << >>)]_vars

\* a save failed after three files were written, leaving a partial file
C6_Witness ==
    /\ pc = "aborted"
    /\ Len(Saves) = 3
    /\ idx = 4
    /\ fs[EntryPath(4)] = PartialFile
    /\ IsImage(fs[EntryPath(3)])

\* the three lines printed after the loop
ClosingLines ==
    { "\nApp icons generated successfully!",
      "Ensure the Contents.json in '" \o output_dir \o "' is updated if needed.",
      "Remember to clean the build folder in Xcode and rebuild the app." }

\* the position of a logged call in a pipeline that ensures the directory
\* first: directory, canvas, drawing, export (with its per-file messages),
\* closing messages
RankCode(e) ==
    IF e.op = "makedirs" THEN 0
    ELSE IF e.op = "new" THEN 1
    ELSE IF e.op = "draw" THEN 2
    ELSE IF e.op = "print" /\ e.arg \in ClosingLines THEN 5
    ELSE 4

\* the position of a logged call in the pipeline initialize, draw,
\* directory, export, closing messages
RankClaimed(e) == IF e.op = "makedirs" THEN 3 ELSE RankCode(e)

AllEntriesSaved == \A i \in DOMAIN manifest : SavesTo(EntryPath(i)) # {}

\* C7 as stated: the steps occur in the order initialize canvas, draw,
\* directory check, export loop, completion, and the banner is printed only
\* after every manifest file has been written.
C7_DirectoryAfterDrawing ==
    /\ \A i \in 1..(Len(trace) - 1) : RankClaimed(trace[i]) <= RankClaimed(trace[i + 1])
    /\ BannerPrinted => AllEntriesSaved

\* C7, amended: the steps occur in the order directory check, initialize
\* canvas, draw, export loop, completion; the directory is ensured before
\* the canvas exists and before the first file is written, and the banner
\* is printed only after every manifest file has been written.
C7_DirectoryFirst ==
    /\ \A i \in 1..(Len(trace) - 1) : RankCode(trace[i]) <= RankCode(trace[i + 1])
    /\ (icon # NoImage \/ Saves # << >>) => (dirExists /\ trace[1].op = "makedirs")
    /\ BannerPrinted => AllEntriesSaved

\* a run went through all five phases
C7_Witness ==
    /\ pc = "done"
    /\ BannerPrinted
    /\ trace[1].op = "makedirs"
    /\ trace[2].op = "new"
    /\ Len(Draws) = 11
    /\ AllEntriesSaved

\* the file name the naming convention gives a dimension
IconName(d) == "playdates-icon-" \o ToString(d) \o ".png"

\* C8: every manifest entry (d, f) has f = "playdates-icon-<d>.png", the
\* dimensions are pairwise distinct, hence so are the output paths, and no
\* save of a run goes to a path an earlier save of that run went to.
C8_NamesFromDimension ==
    /\ \A i \in DOMAIN manifest : manifest[i][2] = IconName(manifest[i][1])
    /\ \A i, j \in DOMAIN manifest : manifest[i][1] = manifest[j][1] => i = j
    /\ \A i, j \in DOMAIN manifest : EntryPath(i) = EntryPath(j) => i = j
    /\ \A a, b \in DOMAIN Saves : Saves[a].arg = Saves[b].arg => a = b

\* the export loop has gone through all thirteen entries
C8_Witness ==
    /\ pc = "loop"
    /\ idx = Len(manifest) + 1
    /\ Saves[Len(Saves)].arg = PathJoin(output_dir, IconName(20))

C10_LastWriterWinsWithPassedColor ==
    pc = "save_base" => \A p \in Probes : icon.px[p] = TopColor(p)

====
